---- MODULE Spec2Model ----
(***************************************************************************)
(* Model of the segment-based taxi labeling pipeline of                    *)
(* src/src/taxi_data_processor_v2.py (class TaxiDatasetCreatorV2):         *)
(*   save_dataset -> create_dataset: process_json_file per capture file,   *)
(*   identify_stop_segments -> apply_event_labels -> label_stop_segments,  *)
(* and of create_dataset and the per-vehicle split of save_dataset of      *)
(* src/src/taxi_data_processor.py (class TaxiDatasetCreator).              *)
(*                                                                         *)
(* Time is counted in milliseconds (the resolution of pd.Timestamp(ms,     *)
(* unit='ms')), speed in km/h.  Python indices are kept 0-based: row i of  *)
(* the frame is df[i + 1].                                                 *)
(***************************************************************************)
EXTENDS Integers, Sequences, FiniteSets, TLC

VARIABLES
    df,               \* the base DataFrame: a sequence of rows
    columns,          \* the column names the frame currently has
    pc,               \* position in the pipeline
    i,                \* loop index of the scan loop / of the event loop
    in_low_speed,     \* identify_stop_segments: inside a low-speed run
    start_idx,        \* identify_stop_segments: first row of the open run, None = -1
    low_speed_groups, \* identify_stop_segments: closed runs <<start, end>>, end exclusive
    segment_id,       \* identify_stop_segments: last id handed out
    change_flag_df,   \* the status log: a sequence of entries
    status_dtype,     \* dtype of the status_management column
    events,           \* label_stop_segments: the event rows, in frame order
    error,            \* the exception raised, "none" when there is none
    run,              \* how many times the reconciler has been started
    first_labels,     \* ghost: the label column produced by the first reconciler run
    first_result,     \* ghost: the base table returned for the first order of the files
    json_files,       \* create_dataset: the capture documents found, in glob order
    all_base_data,    \* create_dataset: the non-empty base frames collected so far
    all_accel_data,   \* create_dataset: the non-empty motion frames collected so far
    accel_df,         \* the motion DataFrame: a sequence of rows
    change_flag_exists, \* whether the status-log file exists
    reported,         \* the files (0-based positions) whose failure was printed
    written,          \* the output tables written so far
    dataset,          \* TaxiDatasetCreator.save_dataset: the labeled rows, by car and time
    train_ratio,      \* TaxiDatasetCreator.save_dataset: the ratio, as a fraction and as a double
    cars_done,        \* TaxiDatasetCreator.save_dataset: the cars already split
    train_data,       \* TaxiDatasetCreator.save_dataset: the training parts, one per car
    test_data         \* TaxiDatasetCreator.save_dataset: the test parts, one per car

\* the state of the capture loop and of the output files
batch_vars == <<json_files, all_base_data, all_accel_data, accel_df,
                change_flag_exists, reported, written>>

\* the state of the per-vehicle split of TaxiDatasetCreator.save_dataset
split_vars == <<dataset, train_ratio, cars_done, train_data, test_data>>

vars == <<df, columns, pc, i, in_low_speed, start_idx, low_speed_groups,
          segment_id, change_flag_df, status_dtype, events, error, run,
          first_labels, first_result, batch_vars, split_vars>>

-----------------------------------------------------------------------------
(* Bounds *)

MaxRows == 4

(* Program constants *)

stop_speed_threshold == 10

MinStopMs == 10000

MaxGapMs == 60000

(* Input alphabets *)

\* 0 = standing, 5 = slow, 10 = exactly the threshold (not low speed)
Speeds == {0, 5, 10}

\* time from one sample to the next: a tie, half and exactly the minimum
\* duration, exactly the maximum gap and one millisecond more
Deltas == {0, 5000, 10000, 60000, 60001}

None == -1

NaN == -1

-----------------------------------------------------------------------------
(* Rows *)

\* value of a column the frame does not have (yet)
NoInt == -2

BaseRow(t, s) ==
    [timestamp |-> t, speed |-> s,
     is_low_speed |-> FALSE, is_zero_speed |-> FALSE,
     stop_segment |-> NoInt, is_stopped |-> NoInt,
     status_management |-> NoInt, change_flag |-> NoInt,
     status_change |-> "", event_type |-> NoInt, label |-> NoInt]

BaseColumns == {"timestamp", "speed"}

\* the orders in which the rows with positions in I can be listed by
\* ascending timestamp: any row with the least timestamp may come first (of
\* several equal rows, swapping which gives the same frame, the first is taken)
RECURSIVE SortedOrders(_, _)
SortedOrders(s, I) ==
    IF I = {} THEN { <<>> }
    ELSE LET least == { a \in I : \A b \in I : s[a].timestamp <= s[b].timestamp }
         IN  UNION { { <<k>> \o rest : rest \in SortedOrders(s, I \ {k}) } :
                        k \in { a \in least : \A b \in least : s[b] = s[a] => a <= b } }

\* a sort that leaves the frame as it is
sort_values_AsRead(s) == { s }

\* df.sort_values('timestamp'): the default kind is quicksort, which is not
\* stable, so rows with equal timestamps may come out in any order
sort_values(s) ==
    { [k \in 1..Len(s) |-> s[p[k]]] : p \in SortedOrders(s, 1..Len(s)) }

-----------------------------------------------------------------------------
(* identify_stop_segments *)

\* a threshold test that lets the threshold itself count as low speed
LowSpeed_Inclusive(speed) == speed <= stop_speed_threshold

\* line 154: df['speed'] < self.stop_speed_threshold
LowSpeed(speed) == speed < stop_speed_threshold

\* lines 151-170: sort, the two scratch flags, the two result columns
IdentifyStart ==
    /\ pc = "concat"
    /\ \E sorted \in sort_values(df) :
          df' = [k \in 1..Len(sorted) |->
                    [sorted[k] EXCEPT
                        !.is_low_speed = LowSpeed(sorted[k].speed),
                        !.is_zero_speed = (sorted[k].speed = 0),
                        !.stop_segment = 0,
                        !.is_stopped = 0]]
    /\ columns' = columns \cup {"is_low_speed", "is_zero_speed",
                                "stop_segment", "is_stopped"}
    /\ segment_id' = 0
    /\ low_speed_groups' = <<>>
    /\ in_low_speed' = FALSE
    /\ start_idx' = None
    /\ i' = 0
    /\ pc' = "scan"
    /\ UNCHANGED <<change_flag_df, status_dtype, events, error, run, first_labels, first_result>>
    /\ UNCHANGED <<batch_vars, split_vars>>

\* a gap test that also closes on a gap of exactly the maximum
GapCloses_AtLeast(k) ==
    /\ k > 0
    /\ df[k + 1].timestamp - df[k].timestamp >= MaxGapMs
    /\ in_low_speed

\* line 177-179: the gap test of the loop body
GapCloses(k) ==
    /\ k > 0
    /\ df[k + 1].timestamp - df[k].timestamp > MaxGapMs
    /\ in_low_speed

\* lines 172-195: one iteration of the scan loop
ScanRow ==
    /\ pc = "scan"
    /\ i < Len(df)
    /\ LET row == df[i + 1]
           \* lines 176-184
           groups1 == IF GapCloses(i) /\ start_idx # None
                      THEN Append(low_speed_groups, <<start_idx, i>>)
                      ELSE low_speed_groups
           in1 == IF GapCloses(i) THEN FALSE ELSE in_low_speed
           start1 == IF GapCloses(i) THEN None ELSE start_idx
       IN  \* lines 186-195
           IF row.is_low_speed /\ ~in1
           THEN /\ in_low_speed' = TRUE
                /\ start_idx' = i
                /\ low_speed_groups' = groups1
           ELSE IF ~row.is_low_speed /\ in1
           THEN /\ in_low_speed' = FALSE
                /\ low_speed_groups' = IF start1 # None
                                       THEN Append(groups1, <<start1, i>>)
                                       ELSE groups1
                /\ start_idx' = None
           ELSE /\ in_low_speed' = in1
                /\ start_idx' = start1
                /\ low_speed_groups' = groups1
    /\ i' = i + 1
    /\ UNCHANGED <<df, columns, pc, segment_id, change_flag_df, status_dtype,
                   events, error, run, first_labels, first_result>>
    /\ UNCHANGED <<batch_vars, split_vars>>

\* lines 197-199: a run still open at the end of the stream
ScanEnd ==
    /\ pc = "scan"
    /\ i = Len(df)
    /\ low_speed_groups' = IF in_low_speed /\ start_idx # None
                           THEN Append(low_speed_groups, <<start_idx, Len(df)>>)
                           ELSE low_speed_groups
    /\ i' = 0
    /\ pc' = "evaluate"
    /\ UNCHANGED <<df, columns, in_low_speed, start_idx, segment_id,
                   change_flag_df, status_dtype, events, error, run, first_labels, first_result>>
    /\ UNCHANGED <<batch_vars, split_vars>>

\* a qualification test that wants strictly more than the minimum duration
Qualifies_Strict(d, start, end) ==
    /\ end - start >= 2
    /\ d[end].timestamp - d[start + 1].timestamp > MinStopMs
    /\ \E k \in (start + 1)..end : d[k].is_zero_speed

\* lines 203-213: does the run car_data.iloc[start:end] qualify as a stop
Qualifies(d, start, end) ==
    /\ end - start >= 2
    /\ d[end].timestamp - d[start + 1].timestamp >= MinStopMs
    /\ \E k \in (start + 1)..end : d[k].is_zero_speed

\* a group loop in which every closed run takes the next id, marked or not
EvaluateGroup_CountsAll ==
    /\ pc = "evaluate"
    /\ i < Len(low_speed_groups)
    /\ LET start == low_speed_groups[i + 1][1]
           end == low_speed_groups[i + 1][2]
       IN  /\ segment_id' = segment_id + 1
           /\ IF Qualifies(df, start, end)
              THEN df' = [k \in 1..Len(df) |->
                            IF k \in (start + 1)..end
                            THEN [df[k] EXCEPT !.stop_segment = segment_id + 1,
                                               !.is_stopped = 1]
                            ELSE df[k]]
              ELSE df' = df
    /\ i' = i + 1
    /\ UNCHANGED <<columns, pc, in_low_speed, start_idx, low_speed_groups,
                   change_flag_df, status_dtype, events, error, run, first_labels, first_result>>
    /\ UNCHANGED <<batch_vars, split_vars>>

\* lines 202-218: one iteration of the evaluation loop
EvaluateGroup ==
    /\ pc = "evaluate"
    /\ i < Len(low_speed_groups)
    /\ LET start == low_speed_groups[i + 1][1]
           end == low_speed_groups[i + 1][2]
       IN  IF Qualifies(df, start, end)
           THEN /\ segment_id' = segment_id + 1
                /\ df' = [k \in 1..Len(df) |->
                            IF k \in (start + 1)..end
                            THEN [df[k] EXCEPT !.stop_segment = segment_id + 1,
                                               !.is_stopped = 1]
                            ELSE df[k]]
           ELSE UNCHANGED <<segment_id, df>>
    /\ i' = i + 1
    /\ UNCHANGED <<columns, pc, in_low_speed, start_idx, low_speed_groups,
                   change_flag_df, status_dtype, events, error, run, first_labels, first_result>>
    /\ UNCHANGED <<batch_vars, split_vars>>

\* lines 220-223: drop the scratch flags and return
IdentifyEnd ==
    /\ pc = "evaluate"
    /\ i = Len(low_speed_groups)
    /\ columns' = columns \ {"is_low_speed", "is_zero_speed"}
    /\ i' = 0
    /\ pc' = "identified"
    /\ UNCHANGED <<df, in_low_speed, start_idx, low_speed_groups, segment_id,
                   change_flag_df, status_dtype, events, error, run, first_labels, first_result>>
    /\ UNCHANGED <<batch_vars, split_vars>>

-----------------------------------------------------------------------------
(* apply_event_labels *)

\* lines 26-30
get_on_map ==
    {"0003", "0012", "0014", "0103", "0112", "0114",
     "0203", "0212", "0214", "0403", "0412", "0414",
     "0503", "0512", "0514", "0603", "0612", "0614",
     "0803", "0812", "0814", "1303", "1312", "1314",
     "1503", "1512", "1514"}

\* an alighting-code set whose first code is a boarding code
get_off_map_Overlapping ==
    {"0003", "1200", "1400", "0301", "1201", "1401",
     "0302", "1202", "1402", "0304", "1204", "1404",
     "0305", "1205", "1405", "0306", "1206", "1406",
     "0308", "1208", "1408", "0313", "1213", "1413",
     "0315", "1215", "1415"}

\* lines 32-36
get_off_map ==
    {"0300", "1200", "1400", "0301", "1201", "1401",
     "0302", "1202", "1402", "0304", "1204", "1404",
     "0305", "1205", "1405", "0306", "1206", "1406",
     "0308", "1208", "1408", "0313", "1213", "1413",
     "0315", "1215", "1415"}

Digit(d) ==
    CASE d = 0 -> "0" [] d = 1 -> "1" [] d = 2 -> "2" [] d = 3 -> "3"
      [] d = 4 -> "4" [] d = 5 -> "5" [] d = 6 -> "6" [] d = 7 -> "7"
      [] d = 8 -> "8" [] d = 9 -> "9"

\* str() of a non-negative integer
RECURSIVE IntText(_)
IntText(n) == IF n < 10 THEN Digit(n) ELSE IntText(n \div 10) \o Digit(n % 10)

\* Series.astype(str) for one cell of a column of the given dtype: an int64
\* cell prints as "3", a float64 cell as "3.0", a missing cell as "nan"; a
\* cell of an object column (a column read as text) keeps its text
astype_str(v, dtype) ==
    IF v = NaN THEN "nan"
    ELSE IF dtype = "float64" THEN IntText(v) \o ".0"
    ELSE IntText(v)

\* Series.str.zfill(width): pad with zeros on the left up to width
RECURSIVE zfill(_, _)
zfill(str, width) == IF Len(str) < width THEN zfill("0" \o str, width) ELSE str

\* dtype of status_management after the left merge of lines 231-237: an int64
\* column that receives a missing value becomes float64
MergedDtype(dtype, d) ==
    IF dtype = "int64" /\ \E k \in 1..Len(d) : d[k].status_management = NaN
    THEN "float64" ELSE dtype

\* dtype of Series.shift(1): the missing first cell turns int64 into float64
ShiftedDtype(dtype) == IF dtype = "int64" THEN "float64" ELSE dtype

\* a join that gives a row without a log entry the status 0 and the flag 0
MergeRow_FilledZero(row, log) ==
    LET m == SelectSeq(log, LAMBDA e : e.time_stamp = row.timestamp)
    IN  IF m = <<>>
        THEN << [row EXCEPT !.status_management = 0, !.change_flag = 0] >>
        ELSE [j \in 1..Len(m) |->
                [row EXCEPT !.status_management = m[j].status_management,
                            !.change_flag = m[j].change_flag]]

\* lines 231-237, one left row: one output row per matching log entry, in
\* the order of the log, or one row with missing status fields
MergeRow(row, log) ==
    LET m == SelectSeq(log, LAMBDA e : e.time_stamp = row.timestamp)
    IN  IF m = <<>>
        THEN << [row EXCEPT !.status_management = NaN, !.change_flag = NaN] >>
        ELSE [j \in 1..Len(m) |->
                [row EXCEPT !.status_management = m[j].status_management,
                            !.change_flag = m[j].change_flag]]

\* lines 231-237: pd.merge(df, change_flag_df[...], how='left')
RECURSIVE merge(_, _, _)
merge(d, log, k) ==
    IF k > Len(d) THEN <<>> ELSE MergeRow(d[k], log) \o merge(d, log, k + 1)

\* lines 241-242: the code of row k is the text of its own status followed
\* by the text of the shifted column, i.e. of the status of row k - 1
status_change(d, k, dtype) ==
    zfill(astype_str(d[k].status_management, dtype), 2)
      \o zfill(astype_str(IF k = 1 THEN NaN ELSE d[k - 1].status_management,
                          ShiftedDtype(dtype)), 2)

\* an event decision in which the change flag is applied last
event_type_FlagLast(change_flag, code) ==
    IF change_flag = 1 THEN 1
    ELSE IF code \in get_off_map THEN 2
    ELSE IF code \in get_on_map THEN 1
    ELSE 0

\* lines 245-248: four assignments in this order, the later ones overwrite
event_type(change_flag, code) ==
    LET e0 == 0
        e1 == IF change_flag = 1 THEN 1 ELSE e0
        e2 == IF code \in get_on_map THEN 1 ELSE e1
        e3 == IF code \in get_off_map THEN 2 ELSE e2
    IN  e3

\* lines 38-43 called from line 345: read the status log, or raise when the
\* file is not there
LoadChangeFlagData ==
    /\ pc = "identified"
    /\ IF change_flag_exists
       THEN /\ pc' = "loaded"
            /\ error' = error
       ELSE /\ pc' = "failed"
            /\ error' = "FileNotFoundError"
    /\ UNCHANGED <<df, columns, i, in_low_speed, start_idx, low_speed_groups,
                   segment_id, change_flag_df, status_dtype, events, run,
                   first_labels, first_result, batch_vars, split_vars>>

\* lines 225-250; the reconciler is started on the frame identify_stop_segments
\* returned, and, when the steps are driven one by one rather than by
\* create_dataset, may be started once more on the frame it has labeled
ApplyEventLabels ==
    /\ \/ pc = "loaded" /\ run = 0
       \/ pc = "labeled" /\ run = 1 /\ json_files = <<>>
    /\ LET merged == merge(df, change_flag_df, 1)
           dtype == MergedDtype(status_dtype, merged)
       IN  \E sorted \in sort_values(merged) :
              df' = [k \in 1..Len(sorted) |->
                        LET code == status_change(sorted, k, dtype)
                        IN  [sorted[k] EXCEPT
                                !.status_change = code,
                                !.event_type =
                                    event_type(sorted[k].change_flag, code)]]
    /\ columns' = columns \cup {"timestamp_ms", "time_stamp", "status_management",
                                "change_flag", "status_change", "event_type"}
    /\ run' = run + 1
    /\ pc' = "events"
    /\ UNCHANGED <<i, in_low_speed, start_idx, low_speed_groups, segment_id,
                   change_flag_df, status_dtype, events, error, first_labels, first_result>>
    /\ UNCHANGED <<batch_vars, split_vars>>

-----------------------------------------------------------------------------
(* label_stop_segments *)

\* lines 254-260: the label column, the sort, the event rows
LabelStart ==
    /\ pc = "events"
    /\ \E sorted \in sort_values([k \in 1..Len(df) |-> [df[k] EXCEPT !.label = 0]]) :
          /\ df' = sorted
          /\ events' = SelectSeq(sorted, LAMBDA r : r.event_type > 0)
    /\ columns' = columns \cup {"label"}
    /\ i' = 0
    /\ pc' = "label"
    /\ UNCHANGED <<in_low_speed, start_idx, low_speed_groups, segment_id,
                   change_flag_df, status_dtype, error, run, first_labels, first_result>>
    /\ UNCHANGED <<batch_vars, split_vars>>

\* a time filter that also keeps the rows at the event's own instant
before_event_Inclusive(d, event_time) ==
    { k \in 1..Len(d) : d[k].timestamp <= event_time }

\* line 268: df[df['timestamp'] < event_time]
before_event(d, event_time) ==
    { k \in 1..Len(d) : d[k].timestamp < event_time }

\* a time filter that also keeps the rows at the event's own instant
after_event_Inclusive(d, event_time) ==
    { k \in 1..Len(d) : d[k].timestamp >= event_time }

\* line 281: df[df['timestamp'] > event_time]
after_event(d, event_time) ==
    { k \in 1..Len(d) : d[k].timestamp > event_time }

\* lines 271 and 284: the rows of a selection that have is_stopped == 1
stopped(d, rows) == { k \in rows : d[k].is_stopped = 1 }

Max(S) == CHOOSE x \in S : \A y \in S : y <= x

Min(S) == CHOOSE x \in S : \A y \in S : x <= y

\* lines 276 and 289: df['stop_segment'] == segment
segment_mask(d, s) == { k \in 1..Len(d) : d[k].stop_segment = s }

\* an assignment that leaves a row alone once it carries a label
set_label_KeepFirst(d, mask, value) ==
    [k \in 1..Len(d) |-> IF k \in mask /\ d[k].label = 0
                         THEN [d[k] EXCEPT !.label = value] ELSE d[k]]

\* lines 277 and 290: df.loc[segment_mask, 'label'] = value
set_label(d, mask, value) ==
    [k \in 1..Len(d) |-> IF k \in mask THEN [d[k] EXCEPT !.label = value] ELSE d[k]]

\* a search that falls back on the stopped rows of the other side
found_rows_EitherSide(d, event) ==
    LET side == IF event.event_type = 1
                THEN stopped(d, before_event(d, event.timestamp))
                ELSE stopped(d, after_event(d, event.timestamp))
    IN  IF side # {} THEN side ELSE stopped(d, 1..Len(d))

\* lines 268-271 and 281-284: the stopped rows on the side of the event the
\* search looks at
found_rows(d, event) ==
    IF event.event_type = 1
    THEN stopped(d, before_event(d, event.timestamp))
    ELSE stopped(d, after_event(d, event.timestamp))

\* lines 273 and 286: iloc[-1] of the rows before, iloc[0] of the rows after
pick_row(d, event) ==
    IF event.event_type = 1 THEN Max(found_rows(d, event)) ELSE Min(found_rows(d, event))

\* an event that labels its own row as well, as a row-based labeling does
label_for_event_OwnRow(d, event) ==
    LET own == { k \in 1..Len(d) : d[k].timestamp = event.timestamp
                                     /\ d[k].event_type = event.event_type }
        seg == d[pick_row(d, event)].stop_segment
    IN  set_label(d, own \cup (IF seg > 0 THEN segment_mask(d, seg) ELSE {}),
                  event.event_type)

\* an event that labels only the rows of the segment its search went through
label_for_event_Searched(d, event) ==
    LET seg == d[pick_row(d, event)].stop_segment
    IN  IF seg > 0
        THEN set_label(d, segment_mask(d, seg) \cap
                            (IF event.event_type = 1
                             THEN before_event(d, event.timestamp)
                             ELSE after_event(d, event.timestamp)),
                       event.event_type)
        ELSE d

\* lines 273-277 and 286-290, for an event whose search found a stopped row:
\* the whole segment of the picked row takes the event's type as label
label_for_event(d, event) ==
    LET seg == d[pick_row(d, event)].stop_segment
    IN  IF seg > 0
        THEN set_label(d, segment_mask(d, seg), event.event_type)
        ELSE d

\* lines 262-290: one iteration of the event loop
LabelEvent ==
    /\ pc = "label"
    /\ i < Len(events)
    /\ LET event == events[i + 1]
       IN  IF event.event_type \in {1, 2} /\ found_rows(df, event) # {}
           THEN IF "stop_segment" \in columns
                THEN /\ df' = label_for_event(df, event)
                     /\ i' = i + 1
                     /\ UNCHANGED <<pc, error>>
                ELSE \* row['stop_segment'] of a frame without that column
                     /\ error' = "KeyError"
                     /\ pc' = "failed"
                     /\ UNCHANGED <<df, i>>
           ELSE /\ i' = i + 1
                /\ UNCHANGED <<df, pc, error>>
    /\ UNCHANGED <<columns, in_low_speed, start_idx, low_speed_groups, segment_id,
                   change_flag_df, status_dtype, events, run, first_labels, first_result>>
    /\ UNCHANGED <<batch_vars, split_vars>>

\* lines 293-295
columns_to_drop ==
    {"timestamp_ms", "time_stamp", "status_management", "change_flag",
     "status_change", "stop_change", "stop_segment", "event_type"}

LabelColumn(d) == [k \in 1..Len(d) |-> d[k].label]

\* lines 292-298: drop the working columns and return
LabelEnd ==
    /\ pc = "label"
    /\ i = Len(events)
    /\ df' = [k \in 1..Len(df) |->
                [df[k] EXCEPT !.status_management = NoInt, !.change_flag = NoInt,
                              !.status_change = "", !.stop_segment = NoInt,
                              !.event_type = NoInt]]
    /\ columns' = columns \ columns_to_drop
    /\ first_labels' = IF run = 1 THEN LabelColumn(df) ELSE first_labels
    /\ events' = <<>>
    /\ i' = 0
    /\ pc' = "labeled"
    /\ UNCHANGED <<in_low_speed, start_idx, low_speed_groups, segment_id,
                   change_flag_df, status_dtype, error, run, first_result>>
    /\ UNCHANGED <<batch_vars, split_vars>>

-----------------------------------------------------------------------------
(* process_json_file *)

\* a timeStamp text that int() rejects; a well-formed one is written as the
\* number of milliseconds it spells
Malformed == -1

\* an element of an array text that float() rejects
NonNumeric == -3

\* the text of one axis array: valid says that json.loads can read it as a
\* list, elements are the items of that list (numbers, or NonNumeric)
ArrayText(valid, elements) == [valid |-> valid, elements |-> elements]

\* a decoder that keeps the numbers read before the item that failed
extract_array_values_Partial(array_str) ==
    IF ~array_str.valid THEN <<>>
    ELSE LET bad == { j \in 1..Len(array_str.elements) :
                        array_str.elements[j] = NonNumeric }
         IN  IF bad = {} THEN array_str.elements
             ELSE SubSeq(array_str.elements, 1, Min(bad) - 1)

\* lines 51-57: the list of the values, or the empty list when json.loads
\* or float() raises on any item
extract_array_values(array_str) ==
    IF ~array_str.valid THEN <<>>
    ELSE IF \E j \in 1..Len(array_str.elements) : array_str.elements[j] = NonNumeric
    THEN <<>>
    ELSE array_str.elements

\* one element of data['data']: the timeStamp text, the speed and the texts
\* of the six axis arrays in the order accX, accY, accZ, radX, radY, radZ
Sample(timeStamp, speed, axes) ==
    [timeStamp |-> timeStamp, speed |-> speed, axes |-> axes]

\* a capture file: "malformed" cannot be read as a document of samples,
\* "nodata" is a document without the key 'data', "ok" has the list data
Document(kind, data) == [kind |-> kind, data |-> data]

\* line 48: int(timestamp_str) raises ValueError on a malformed text
parse_timestamp_raises(record) == record.timeStamp = Malformed

\* lines 85-90: the six decoded arrays of a sample
decoded(record) == [a \in 1..6 |-> extract_array_values(record.axes[a])]

\* lines 121-122
max_length(axes) == Max({ Len(axes[a]) : a \in 1..6 } \cup {1})

\* an axis that is padded with zeros
axis_value_ZeroPadded(axis, j) == IF j < Len(axis) THEN axis[j + 1] ELSE 0

\* lines 131-136: the value of one axis in motion row j (0-based)
axis_value(axis, j) == IF j < Len(axis) THEN axis[j + 1] ELSE NaN

\* line 127: the spacing of the motion rows of one sample, in milliseconds
SampleStepMs == 10

\* a timestamp that counts the rows of a sample from 1
sample_timestamp_FromOne(timestamp, index) == timestamp + (index + 1) * SampleStepMs

\* line 127: timestamp + pd.Timedelta(milliseconds=i * 10)
sample_timestamp(timestamp, index) == timestamp + index * SampleStepMs

\* lines 125-138: the motion rows of one sample, 10 ms apart
accel_rows_of(record) ==
    [k \in 1..max_length(decoded(record)) |->
        [timestamp |-> sample_timestamp(record.timeStamp, k - 1),
         acc_x |-> axis_value(decoded(record)[1], k - 1),
         acc_y |-> axis_value(decoded(record)[2], k - 1),
         acc_z |-> axis_value(decoded(record)[3], k - 1),
         rad_x |-> axis_value(decoded(record)[4], k - 1),
         rad_y |-> axis_value(decoded(record)[5], k - 1),
         rad_z |-> axis_value(decoded(record)[6], k - 1)]]

\* the concatenation of the sequences of a sequence
RECURSIVE Flatten(_)
Flatten(ss) == IF ss = <<>> THEN <<>> ELSE Head(ss) \o Flatten(Tail(ss))

\* lines 77-140 for the first n samples of the list
base_rows_of(data, n) ==
    [k \in 1..n |-> BaseRow(data[k].timeStamp, data[k].speed)]

all_accel_rows_of(data, n) ==
    Flatten([k \in 1..n |-> accel_rows_of(data[k])])

\* the 1-based positions of the samples whose timeStamp makes line 82 raise
raising(data) == { k \in 1..Len(data) : parse_timestamp_raises(data[k]) }

\* a parser in which the except clause returns the rows collected before the
\* sample that raised
process_json_file_Partial(doc) ==
    IF doc.kind = "malformed"
    THEN [base_df |-> <<>>, accel_df |-> <<>>, raised |-> TRUE]
    ELSE IF doc.kind = "nodata" \/ doc.data = <<>>
    THEN [base_df |-> <<>>, accel_df |-> <<>>, raised |-> FALSE]
    ELSE IF raising(doc.data) # {}
    THEN [base_df |-> base_rows_of(doc.data, Min(raising(doc.data)) - 1),
          accel_df |-> all_accel_rows_of(doc.data, Min(raising(doc.data)) - 1),
          raised |-> TRUE]
    ELSE [base_df |-> base_rows_of(doc.data, Len(doc.data)),
          accel_df |-> all_accel_rows_of(doc.data, Len(doc.data)),
          raised |-> FALSE]

\* lines 66-144: the two frames returned for one file, and whether the except
\* clause of lines 142-144 was taken (it prints the error and returns two
\* empty frames, whatever had been collected)
process_json_file(doc) ==
    IF doc.kind = "malformed"
    THEN [base_df |-> <<>>, accel_df |-> <<>>, raised |-> TRUE]
    ELSE IF doc.kind = "nodata" \/ doc.data = <<>>
    THEN [base_df |-> <<>>, accel_df |-> <<>>, raised |-> FALSE]
    ELSE IF raising(doc.data) # {}
    THEN [base_df |-> <<>>, accel_df |-> <<>>, raised |-> TRUE]
    ELSE [base_df |-> base_rows_of(doc.data, Len(doc.data)),
          accel_df |-> all_accel_rows_of(doc.data, Len(doc.data)),
          raised |-> FALSE]

-----------------------------------------------------------------------------
(* create_dataset and save_dataset *)

\* a start that goes on to the file loop with an empty list of files
CreateStart_EmptyOk ==
    /\ pc = "start"
    /\ pc' = "files"
    /\ error' = error
    /\ all_base_data' = <<>>
    /\ all_accel_data' = <<>>
    /\ i' = 0
    /\ UNCHANGED <<df, columns, in_low_speed, start_idx, low_speed_groups,
                   segment_id, change_flag_df, status_dtype, events, run,
                   first_labels, first_result, json_files, accel_df, change_flag_exists,
                   reported, written, split_vars>>

\* lines 310-322 (max_files = None): the glob, and the error when it is empty
CreateStart ==
    /\ pc = "start"
    /\ IF json_files = <<>>
       THEN /\ pc' = "failed"
            /\ error' = "ValueError: No JSON files found"
       ELSE /\ pc' = "files"
            /\ error' = error
    /\ all_base_data' = <<>>
    /\ all_accel_data' = <<>>
    /\ i' = 0
    /\ UNCHANGED <<df, columns, in_low_speed, start_idx, low_speed_groups,
                   segment_id, change_flag_df, status_dtype, events, run,
                   first_labels, first_result, json_files, accel_df, change_flag_exists,
                   reported, written, split_vars>>

\* lines 324-329: one iteration of the file loop
ProcessFile ==
    /\ pc = "files"
    /\ i < Len(json_files)
    /\ LET result == process_json_file(json_files[i + 1])
       IN  /\ all_base_data' = IF result.base_df # <<>>
                               THEN Append(all_base_data, result.base_df)
                               ELSE all_base_data
           /\ all_accel_data' = IF result.accel_df # <<>>
                                THEN Append(all_accel_data, result.accel_df)
                                ELSE all_accel_data
           /\ reported' = IF result.raised THEN reported \cup {i} ELSE reported
    /\ i' = i + 1
    /\ UNCHANGED <<df, columns, pc, in_low_speed, start_idx, low_speed_groups,
                   segment_id, change_flag_df, status_dtype, events, error, run,
                   first_labels, first_result, json_files, accel_df, change_flag_exists,
                   written, split_vars>>

\* lines 331-339: the error when no file gave a row, else the two frames
Concat ==
    /\ pc = "files"
    /\ i = Len(json_files)
    /\ IF all_base_data = <<>>
       THEN /\ pc' = "failed"
            /\ error' = "ValueError: No data extracted"
            /\ UNCHANGED <<df, accel_df, columns>>
       ELSE /\ pc' = "concat"
            /\ error' = error
            /\ df' = Flatten(all_base_data)
            /\ accel_df' = Flatten(all_accel_data)
            /\ columns' = BaseColumns
    /\ UNCHANGED <<i, in_low_speed, start_idx, low_speed_groups, segment_id,
                   change_flag_df, status_dtype, events, run, first_labels, first_result,
                   json_files, all_base_data, all_accel_data,
                   change_flag_exists, reported, written, split_vars>>

\* lines 353-357: the final sorts of create_dataset
FinalSort ==
    /\ pc = "labeled"
    /\ json_files # <<>>
    /\ df' \in sort_values(df)
    /\ accel_df' \in sort_values(accel_df)
    /\ pc' = "created"
    /\ UNCHANGED <<columns, i, in_low_speed, start_idx, low_speed_groups,
                   segment_id, change_flag_df, status_dtype, events, error, run,
                   first_labels, first_result, json_files, all_base_data, all_accel_data,
                   change_flag_exists, reported, written, split_vars>>

\* a base table written as soon as the segments are identified
SaveBase_BeforeLoad ==
    /\ pc = "identified"
    /\ "base" \notin written
    /\ written' = written \cup {"base"}
    /\ UNCHANGED <<df, columns, pc, i, in_low_speed, start_idx, low_speed_groups,
                   segment_id, change_flag_df, status_dtype, events, error, run,
                   first_labels, first_result, json_files, all_base_data, all_accel_data,
                   accel_df, change_flag_exists, reported, split_vars>>

\* lines 371-372 of save_dataset
SaveBase ==
    /\ pc = "created"
    /\ written' = written \cup {"base"}
    /\ pc' = "base_saved"
    /\ UNCHANGED <<df, columns, i, in_low_speed, start_idx, low_speed_groups,
                   segment_id, change_flag_df, status_dtype, events, error, run,
                   first_labels, first_result, json_files, all_base_data, all_accel_data,
                   accel_df, change_flag_exists, reported, split_vars>>

\* lines 375-377 of save_dataset
SaveAccel ==
    /\ pc = "base_saved"
    /\ written' = IF accel_df # <<>> THEN written \cup {"accel"} ELSE written
    /\ pc' = "saved"
    /\ UNCHANGED <<df, columns, i, in_low_speed, start_idx, low_speed_groups,
                   segment_id, change_flag_df, status_dtype, events, error, run,
                   first_labels, first_result, json_files, all_base_data, all_accel_data,
                   accel_df, change_flag_exists, reported, split_vars>>

-----------------------------------------------------------------------------
(* TaxiDatasetCreator (src/src/taxi_data_processor.py): create_dataset and *)
(* the per-vehicle split of save_dataset.  A row keeps the columns the     *)
(* split looks at: car_id, timestamp and sample_index.                     *)

\* a capture file of the first pipeline: the document carries the imei that
\* becomes car_id; every sample has one value per axis
CarDocument(kind, imei, data) == [kind |-> kind, imei |-> imei, data |-> data]

\* lines 86-152 of taxi_data_processor.py: the rows of one file, one per
\* axis index of every sample; none when the document cannot be processed,
\* has no sample, or has a sample that makes parse_timestamp raise
car_rows_of(doc) ==
    IF doc.kind = "malformed" \/ doc.kind = "nodata" \/ raising(doc.data) # {}
    THEN <<>>
    ELSE Flatten([k \in 1..Len(doc.data) |->
            [j \in 1..max_length(decoded(doc.data[k])) |->
                [car_id |-> doc.imei, timestamp |-> doc.data[k].timeStamp,
                 sample_index |-> j - 1]]])

\* row a comes before row b in sort_values(['car_id', 'timestamp'])
CarTimeBefore(a, b) ==
    \/ a.car_id < b.car_id
    \/ a.car_id = b.car_id /\ a.timestamp < b.timestamp

\* line 228 of taxi_data_processor.py: a row goes to the place given by the
\* number of rows that come before it, rows equal in car and time staying in
\* their order (the captures modelled have one axis value per sample, so no
\* two rows agree in car and time)
sort_by_car_time(rows) ==
    LET rank(a) == Cardinality({ b \in 1..Len(rows) :
                                    \/ CarTimeBefore(rows[b], rows[a])
                                    \/ /\ ~CarTimeBefore(rows[a], rows[b])
                                       /\ b <= a })
    IN  [k \in 1..Len(rows) |-> rows[CHOOSE a \in 1..Len(rows) : rank(a) = k]]

\* lines 154-230 of taxi_data_processor.py: the glob, the file loop, the
\* concatenation, the status log, the join and the sort
CreateDatasetV1 ==
    /\ pc = "v1_start"
    /\ LET all_data == Flatten([k \in 1..Len(json_files) |-> car_rows_of(json_files[k])])
       IN  IF json_files = <<>>
           THEN /\ pc' = "failed"
                /\ error' = "ValueError: No JSON files found"
                /\ dataset' = dataset
           ELSE IF all_data = <<>>
           THEN /\ pc' = "failed"
                /\ error' = "ValueError: No data extracted"
                /\ dataset' = dataset
           ELSE IF ~change_flag_exists
           THEN /\ pc' = "failed"
                /\ error' = "FileNotFoundError"
                /\ dataset' = dataset
           ELSE /\ pc' = "split"
                /\ error' = error
                /\ dataset' = sort_by_car_time(all_data)
    /\ train_data' = <<>>
    /\ test_data' = <<>>
    /\ cars_done' = <<>>
    /\ UNCHANGED <<df, columns, i, in_low_speed, start_idx, low_speed_groups,
                   segment_id, change_flag_df, status_dtype, events, run,
                   first_labels, first_result, batch_vars, train_ratio>>

\* the double d in [0.5, 1) is written with its 53-bit significand M,
\* d = M / 2^53, in three limbs: M = m[1] * 2^48 + m[2] * 2^24 + m[3]
Limb == 16777216

\* the number of binary digits of q
RECURSIVE bit_length(_)
bit_length(q) == IF q = 0 THEN 0 ELSE 1 + bit_length(q \div 2)

RECURSIVE Pow2(_)
Pow2(k) == IF k = 0 THEN 1 ELSE 2 * Pow2(k - 1)

\* line 251: int(len(car_data) * train_ratio).  The product n * M / 2^53 is
\* rounded to the nearest double (53 significant bits, ties to even) and then
\* truncated: with q its integer part, the result is q + 1 when the product
\* is within half a unit in the last place of q + 1, and q otherwise
split_idx(n, ratio) ==
    LET m == ratio.mantissa
        t0 == n * m[3]
        low == t0 % Limb
        t1 == n * m[2] + t0 \div Limb
        mid == t1 % Limb
        t2 == n * m[1] + t1 \div Limb
        q == t2 \div 32
        rounds_up == /\ q > 0
                     /\ t2 % 32 = 31
                     /\ mid = Limb - 1
                     /\ Limb - low <= Pow2(bit_length(q) - 1)
    IN  IF rounds_up THEN q + 1 ELSE q

\* dataset['car_id'].unique(): the cars in the order of first appearance
unique(cars) ==
    LET firsts == SelectSeq([k \in 1..Len(cars) |-> k],
                            LAMBDA k : \A j \in 1..(k - 1) : cars[j] # cars[k])
    IN  [j \in 1..Len(firsts) |-> cars[firsts[j]]]

car_ids(d) == unique([k \in 1..Len(d) |-> d[k].car_id])

\* lines 247-253 of taxi_data_processor.py: one iteration of the car loop
SplitCar ==
    /\ pc = "split"
    /\ Len(cars_done) < Len(car_ids(dataset))
    /\ LET car_id == car_ids(dataset)[Len(cars_done) + 1]
           car_data == SelectSeq(dataset, LAMBDA r : r.car_id = car_id)
           idx == split_idx(Len(car_data), train_ratio)
       IN  /\ train_data' = Append(train_data, SubSeq(car_data, 1, idx))
           /\ test_data' = Append(test_data, SubSeq(car_data, idx + 1, Len(car_data)))
           /\ cars_done' = Append(cars_done, car_id)
    /\ UNCHANGED <<df, columns, pc, i, in_low_speed, start_idx, low_speed_groups,
                   segment_id, change_flag_df, status_dtype, events, error, run,
                   first_labels, first_result, batch_vars, dataset, train_ratio>>

\* lines 255-263 of taxi_data_processor.py: the three tables are written
SaveSplit ==
    /\ pc = "split"
    /\ Len(cars_done) = Len(car_ids(dataset))
    /\ written' = written \cup {"train", "test", "full"}
    /\ pc' = "saved"
    /\ UNCHANGED <<df, columns, i, in_low_speed, start_idx, low_speed_groups,
                   segment_id, change_flag_df, status_dtype, events, error, run,
                   first_labels, first_result, json_files, all_base_data, all_accel_data,
                   accel_df, change_flag_exists, reported, split_vars>>

-----------------------------------------------------------------------------
(* Inputs of the detector *)

\* the concatenated base streams with n rows; the first sample is at time 0
\* the instant of sample k when sample j comes dl[j] after sample j - 1;
\* the first sample is at time 0
RECURSIVE TimeOf(_, _)
TimeOf(dl, k) == IF k = 1 THEN 0 ELSE TimeOf(dl, k - 1) + dl[k]

\* the concatenated base stream of lines 334-335, listed by time
Stream(dl, sp) == [k \in 1..Len(sp) |-> BaseRow(TimeOf(dl, k), sp[k])]

StatusEvent(t, status, flag) ==
    [time_stamp |-> t, status_management |-> status, change_flag |-> flag]

\* what the log holds for the instant of one sample: nothing (the empty
\* tuple), or one entry <<status code, change flag>>
LogFor(d, choice) ==
    LET present == SelectSeq([k \in 1..Len(d) |-> k], LAMBDA k : choice[k] # <<>>)
    IN  [j \in 1..Len(present) |->
            StatusEvent(d[present[j]].timestamp,
                        choice[present[j]][1], choice[present[j]][2])]

\* the capture loop is over and nothing has been written
BatchIdle ==
    /\ json_files = <<>>
    /\ all_base_data = <<>>
    /\ all_accel_data = <<>>
    /\ accel_df = <<>>
    /\ change_flag_exists = TRUE
    /\ reported = {}
    /\ written = {}

\* no per-vehicle split is under way
SplitIdle ==
    /\ dataset = <<>>
    /\ train_ratio = [num |-> 4, den |-> 5, mantissa |-> <<25, 10066329, 10066330>>]
    /\ cars_done = <<>>
    /\ train_data = <<>>
    /\ test_data = <<>>

\* the state before identify_stop_segments is called: a stream of up to max
\* samples and the status log that was read
InitWith(max, deltas, speeds, choices, dtypes) ==
    /\ \E n \in 1..max :
          \E dl \in [2..n -> deltas], sp \in [1..n -> speeds], c \in [1..n -> choices] :
              /\ df = Stream(dl, sp)
              /\ change_flag_df = LogFor(Stream(dl, sp), c)
    /\ status_dtype \in dtypes
    /\ columns = BaseColumns
    /\ pc = "concat"
    /\ i = 0
    /\ in_low_speed = FALSE
    /\ start_idx = None
    /\ low_speed_groups = <<>>
    /\ segment_id = 0
    /\ events = <<>>
    /\ error = "none"
    /\ run = 0
    /\ first_labels = <<>>
    /\ first_result = <<>>
    /\ BatchIdle
    /\ SplitIdle

\* no status log entry at all
InitDetect == InitWith(MaxRows, Deltas, Speeds, { <<>> }, {"int64"})

NextDetect ==
    \/ IdentifyStart
    \/ ScanRow
    \/ ScanEnd
    \/ EvaluateGroup
    \/ IdentifyEnd

SpecDetect == InitDetect /\ [][NextDetect]_vars

-----------------------------------------------------------------------------
(* Inputs of the reconciler *)

\* 0 = vacant, 3 = occupied; <<0, 1>> is a vacant row with the change flag set
LabelChoices == { <<0, 0>>, <<3, 0>>, <<0, 1>> }

\* standing or fast samples, 10 s apart or behind a gap of more than 60 s
Init == InitWith(MaxRows, {10000, 60001}, {0, 10}, LabelChoices, {"int64", "object"})

Next ==
    \/ IdentifyStart
    \/ ScanRow
    \/ ScanEnd
    \/ EvaluateGroup
    \/ IdentifyEnd
    \/ LoadChangeFlagData
    \/ ApplyEventLabels
    \/ LabelStart
    \/ LabelEvent
    \/ LabelEnd

Spec == Init /\ [][Next]_vars

\* a log with unmatched samples, two-digit codes and flagged occupied rows
EventChoices == { <<>>, <<0, 0>>, <<3, 0>>, <<3, 1>>, <<12, 0>> }

MaxEventRows == 4

\* standing samples 10 s apart
InitEvents == InitWith(MaxEventRows, {10000}, {0}, EventChoices, {"int64", "object"})

SpecEvents == InitEvents /\ [][Next]_vars

-----------------------------------------------------------------------------
(* Inputs of save_dataset *)

MaxFiles == 2

MaxSamples == 2

\* the sequences of length 0..n over the set S
SeqUpTo(S, n) == UNION { [1..m -> S] : m \in 0..n }

\* the axis arrays of the samples of a batch: two values, one value, none
BatchAxes ==
    << ArrayText(TRUE, <<0, 1>>), ArrayText(TRUE, <<10>>), ArrayText(TRUE, <<>>),
       ArrayText(TRUE, <<>>), ArrayText(TRUE, <<>>), ArrayText(TRUE, <<>>) >>

\* a capture of n standing samples 10 s apart; bad[k] says that the
\* timeStamp of sample k is malformed
Capture(bad) ==
    Document("ok", [k \in 1..Len(bad) |->
                      Sample(IF bad[k] THEN Malformed ELSE 10000 * (k - 1),
                             0, BatchAxes)])

BatchDocuments ==
    { Document("malformed", <<>>), Document("nodata", <<>>) }
        \cup { Capture(bad) : bad \in SeqUpTo(BOOLEAN, MaxSamples) }

\* the status logs of a batch: empty, one flagged entry at 10 s, and two
\* entries for the instant 0
BatchLogs ==
    { <<>>,
      << StatusEvent(10000, 0, 1) >>,
      << StatusEvent(0, 0, 0), StatusEvent(0, 0, 0) >> }

\* the state when save_dataset is called: the files of the directory, and
\* the status log when there is one
InitBatch ==
    /\ json_files \in SeqUpTo(BatchDocuments, MaxFiles)
    /\ \/ change_flag_exists = TRUE /\ change_flag_df \in BatchLogs
       \/ change_flag_exists = FALSE /\ change_flag_df = <<>>
    /\ status_dtype = "int64"
    /\ df = <<>>
    /\ accel_df = <<>>
    /\ columns = {}
    /\ pc = "start"
    /\ i = 0
    /\ in_low_speed = FALSE
    /\ start_idx = None
    /\ low_speed_groups = <<>>
    /\ segment_id = 0
    /\ events = <<>>
    /\ error = "none"
    /\ run = 0
    /\ first_labels = <<>>
    /\ first_result = <<>>
    /\ all_base_data = <<>>
    /\ all_accel_data = <<>>
    /\ reported = {}
    /\ written = {}
    /\ SplitIdle

NextBatch ==
    \/ CreateStart
    \/ ProcessFile
    \/ Concat
    \/ IdentifyStart
    \/ ScanRow
    \/ ScanEnd
    \/ EvaluateGroup
    \/ IdentifyEnd
    \/ LoadChangeFlagData
    \/ ApplyEventLabels
    \/ LabelStart
    \/ LabelEvent
    \/ LabelEnd
    \/ FinalSort
    \/ SaveBase
    \/ SaveAccel

SpecBatch == InitBatch /\ [][NextBatch]_vars

-----------------------------------------------------------------------------
(* Inputs of TaxiDatasetCreator.save_dataset *)

Cars == {1, 2}

\* the ratios 0.5, 0.8 (the default) and 0.58: the fraction the caller
\* writes, and the significand of the double it is passed as
Ratios ==
    { [num |-> 1, den |-> 2, mantissa |-> <<16, 0, 0>>],
      [num |-> 4, den |-> 5, mantissa |-> <<25, 10066329, 10066330>>],
      [num |-> 29, den |-> 50, mantissa |-> <<18, 9395240, 16106127>>] }

\* the numbers of samples of a capture
CarRowCounts == {0, 1, 2, 10, 50}

\* the capture of one car: n samples one second apart, each with one value
\* per axis; the captures of the two cars are interleaved in time
CarCapture(imei, n) ==
    CarDocument("ok", imei,
                [k \in 1..n |-> Sample(1000 * k + imei, 0,
                                       [a \in 1..6 |-> ArrayText(TRUE, <<0>>)])])

CarDocuments(imei) ==
    { CarDocument("malformed", imei, <<>>) }
        \cup { CarCapture(imei, n) : n \in CarRowCounts }

\* the directories: at most one file per car, in either order
CarDirectories ==
    { <<>> }
        \cup UNION { { <<d>> : d \in CarDocuments(c) } : c \in Cars }
        \cup UNION { { <<d1, d2>> : d1 \in CarDocuments(c1), d2 \in CarDocuments(c2) } :
                        <<c1, c2>> \in { p \in Cars \X Cars : p[1] # p[2] } }

\* the state when TaxiDatasetCreator.save_dataset is called
InitSplit ==
    /\ json_files \in CarDirectories
    /\ train_ratio \in Ratios
    /\ change_flag_exists \in BOOLEAN
    /\ change_flag_df = <<>>
    /\ status_dtype = "int64"
    /\ df = <<>>
    /\ accel_df = <<>>
    /\ columns = {}
    /\ pc = "v1_start"
    /\ i = 0
    /\ in_low_speed = FALSE
    /\ start_idx = None
    /\ low_speed_groups = <<>>
    /\ segment_id = 0
    /\ events = <<>>
    /\ error = "none"
    /\ run = 0
    /\ first_labels = <<>>
    /\ first_result = <<>>
    /\ all_base_data = <<>>
    /\ all_accel_data = <<>>
    /\ reported = {}
    /\ written = {}
    /\ dataset = <<>>
    /\ cars_done = <<>>
    /\ train_data = <<>>
    /\ test_data = <<>>

NextSplit ==
    \/ CreateDatasetV1
    \/ SplitCar
    \/ SaveSplit

SpecSplit == InitSplit /\ [][NextSplit]_vars

\* save_dataset of either pipeline
InitSave == InitBatch \/ InitSplit

NextSave == NextBatch \/ NextSplit

SpecSave == InitSave /\ [][NextSave]_vars

-----------------------------------------------------------------------------
(* Inputs of the parser *)

MaxAxisLen == 5

\* the text of the array of axis a (1..6) with len values: value j (0-based)
\* of axis a is 10 * (a - 1) + j, so the first value of accX is a real 0
AxisArray(a, len) == ArrayText(TRUE, [j \in 1..len |-> 10 * (a - 1) + (j - 1)])

\* one capture file with one sample whose six arrays have the lengths lens
InitParse ==
    /\ \E lens \in [1..6 -> 0..MaxAxisLen] :
          json_files = << Document("ok",
                            << Sample(0, 0, [a \in 1..6 |-> AxisArray(a, lens[a])]) >>) >>
    /\ change_flag_exists = TRUE
    /\ change_flag_df = <<>>
    /\ status_dtype = "int64"
    /\ df = <<>>
    /\ accel_df = <<>>
    /\ columns = {}
    /\ pc = "start"
    /\ i = 0
    /\ in_low_speed = FALSE
    /\ start_idx = None
    /\ low_speed_groups = <<>>
    /\ segment_id = 0
    /\ events = <<>>
    /\ error = "none"
    /\ run = 0
    /\ first_labels = <<>>
    /\ first_result = <<>>
    /\ all_base_data = <<>>
    /\ all_accel_data = <<>>
    /\ reported = {}
    /\ written = {}
    /\ SplitIdle

NextParse ==
    \/ CreateStart
    \/ ProcessFile
    \/ Concat

SpecParse == InitParse /\ [][NextParse]_vars

\* the texts one axis array of a sample is drawn from: an empty list, a list
\* of one to three numbers, a text json.loads rejects, and two lists holding
\* an item float() rejects (after and before a number)
DecodeTexts(a) ==
    { ArrayText(TRUE, <<>>),
      AxisArray(a, (a % 3) + 1),
      ArrayText(FALSE, <<>>),
      ArrayText(TRUE, <<10 * (a - 1), NonNumeric>>),
      ArrayText(TRUE, <<NonNumeric, 10 * (a - 1) + 1>>) }

\* one capture file with one sample whose six axis texts are drawn from
\* DecodeTexts
InitDecode ==
    /\ \E t1 \in DecodeTexts(1), t2 \in DecodeTexts(2), t3 \in DecodeTexts(3),
          t4 \in DecodeTexts(4), t5 \in DecodeTexts(5), t6 \in DecodeTexts(6) :
          json_files = << Document("ok",
                            << Sample(0, 0, <<t1, t2, t3, t4, t5, t6>>) >>) >>
    /\ change_flag_exists = TRUE
    /\ change_flag_df = <<>>
    /\ status_dtype = "int64"
    /\ df = <<>>
    /\ accel_df = <<>>
    /\ columns = {}
    /\ pc = "start"
    /\ i = 0
    /\ in_low_speed = FALSE
    /\ start_idx = None
    /\ low_speed_groups = <<>>
    /\ segment_id = 0
    /\ events = <<>>
    /\ error = "none"
    /\ run = 0
    /\ first_labels = <<>>
    /\ first_result = <<>>
    /\ all_base_data = <<>>
    /\ all_accel_data = <<>>
    /\ reported = {}
    /\ written = {}
    /\ SplitIdle

SpecDecode == InitDecode /\ [][NextParse]_vars

-----------------------------------------------------------------------------
(* Inputs of create_dataset for the order of the capture files *)

\* the instants a sample may have
OrderTimes == {0, 10000, 20000}

\* a standing and a moving vehicle
OrderSpeeds == {0, 20}

\* the members of a set of numbers, ascending
Ascending(S) ==
    [k \in 1..Cardinality(S) |->
        CHOOSE t \in S : Cardinality({ u \in S : u < t }) = k - 1]

\* a capture file with one sample for each instant of times, all of the
\* speed sp; accX holds the speed, so a motion row shows its file too
OrderCapture(times, sp) ==
    Document("ok",
        [k \in 1..Cardinality(times) |->
            Sample(Ascending(times)[k], sp,
                   [a \in 1..6 |-> ArrayText(TRUE, IF a = 1 THEN <<sp>> ELSE <<>>)])])

OrderDocuments ==
    { OrderCapture(times, sp) :
        times \in { T \in SUBSET OrderTimes : T # {} /\ Cardinality(T) <= MaxSamples },
        sp \in OrderSpeeds }

\* no entry, or a vacant vehicle whose change flag is set at 10 s
OrderLogs ==
    { <<>>,
      << StatusEvent(0, 0, 0), StatusEvent(10000, 0, 1), StatusEvent(20000, 0, 0) >> }

\* the most samples the files of a directory hold in all
MaxOrderRows == 3

\* the number of samples of a list of files
SampleCount(files) ==
    Len(Flatten([f \in 1..Len(files) |-> files[f].data]))

\* the state when create_dataset is called for a directory of one to
\* MaxFiles capture files with up to MaxOrderRows samples in all
InitOrder ==
    /\ \E n \in 1..MaxFiles : json_files \in [1..n -> OrderDocuments]
    /\ SampleCount(json_files) <= MaxOrderRows
    /\ change_flag_exists = TRUE
    /\ change_flag_df \in OrderLogs
    /\ status_dtype = "int64"
    /\ df = <<>>
    /\ accel_df = <<>>
    /\ columns = {}
    /\ pc = "start"
    /\ i = 0
    /\ in_low_speed = FALSE
    /\ start_idx = None
    /\ low_speed_groups = <<>>
    /\ segment_id = 0
    /\ events = <<>>
    /\ error = "none"
    /\ run = 0
    /\ first_labels = <<>>
    /\ first_result = <<>>
    /\ all_base_data = <<>>
    /\ all_accel_data = <<>>
    /\ reported = {}
    /\ written = {}
    /\ SplitIdle

\* line 310 in a second run: glob lists the same files in another order
\* (the order of glob is that of the directory, which is not fixed), and
\* create_dataset starts again; the table of the first run is remembered
Reorder ==
    /\ pc = "created"
    /\ first_result = <<>>
    /\ first_result' = df
    /\ \E p \in Permutations(1..Len(json_files)) :
          /\ json_files' = [k \in 1..Len(json_files) |-> json_files[p[k]]]
          /\ Len(json_files) > 1 => json_files' # json_files
    /\ df' = <<>>
    /\ accel_df' = <<>>
    /\ columns' = {}
    /\ pc' = "start"
    /\ i' = 0
    /\ in_low_speed' = FALSE
    /\ start_idx' = None
    /\ low_speed_groups' = <<>>
    /\ segment_id' = 0
    /\ events' = <<>>
    /\ run' = 0
    /\ first_labels' = <<>>
    /\ all_base_data' = <<>>
    /\ all_accel_data' = <<>>
    /\ reported' = {}
    /\ UNCHANGED <<change_flag_df, status_dtype, error, change_flag_exists,
                   written, split_vars>>

NextOrder ==
    \/ CreateStart
    \/ ProcessFile
    \/ Concat
    \/ IdentifyStart
    \/ ScanRow
    \/ ScanEnd
    \/ EvaluateGroup
    \/ IdentifyEnd
    \/ LoadChangeFlagData
    \/ ApplyEventLabels
    \/ LabelStart
    \/ LabelEvent
    \/ LabelEnd
    \/ FinalSort
    \/ Reorder

SpecOrder == InitOrder /\ [][NextOrder]_vars

-----------------------------------------------------------------------------
(* Properties of identify_stop_segments, checked under SpecDetect *)

\* the rows start..end-1 (0-based) of a closed run, as 1-based positions
RunRows(g) == (g[1] + 1)..g[2]

InSomeRun(k) == \E j \in 1..Len(low_speed_groups) : k \in RunRows(low_speed_groups[j])

\* the qualification rule as the specification words it
StopRule(g) ==
    /\ Cardinality(RunRows(g)) >= 2
    /\ df[g[2]].timestamp - df[g[1] + 1].timestamp >= 10000
    /\ \E k \in RunRows(g) : df[k].speed = 0

Marked(k) == df[k].stop_segment > 0 /\ df[k].is_stopped = 1

Unmarked(k) == df[k].stop_segment = 0 /\ df[k].is_stopped = 0

\* C1: once identify_stop_segments has returned, every closed low-speed
\* interval has a segment id and is_stopped = 1 on all its rows if and only
\* if it lasts at least 10.0 s from first to last row, holds a row of speed 0
\* and has at least 2 rows; the rows of every other interval and the rows of
\* no interval keep stop_segment = 0 and is_stopped = 0.
C1_QualifyingRule ==
    pc = "identified" =>
        /\ \A j \in 1..Len(low_speed_groups) :
              LET g == low_speed_groups[j]
              IN  IF StopRule(g)
                  THEN \A k \in RunRows(g) : Marked(k)
                  ELSE \A k \in RunRows(g) : Unmarked(k)
        /\ \A k \in 1..Len(df) : ~InSomeRun(k) => Unmarked(k)

\* C1 witness: a run of exactly 10.0 s with a standing row is marked, and a
\* shorter run with a standing row is not
C1_Witness ==
    /\ pc = "identified"
    /\ \E j \in 1..Len(low_speed_groups) :
          LET g == low_speed_groups[j]
          IN  /\ df[g[2]].timestamp - df[g[1] + 1].timestamp = 10000
              /\ \A k \in RunRows(g) : Marked(k)
    /\ \E j \in 1..Len(low_speed_groups) :
          LET g == low_speed_groups[j]
          IN  /\ df[g[2]].timestamp - df[g[1] + 1].timestamp < 10000
              /\ \E k \in RunRows(g) : df[k].speed = 0
              /\ \A k \in RunRows(g) : Unmarked(k)

SegmentRows(s) == { k \in 1..Len(df) : df[k].stop_segment = s }

Gap(k) == df[k + 1].timestamp - df[k].timestamp

\* row k is a boundary for the run next to it: fast, or more than 60 s away
\* from its neighbour k2
Boundary(k, k2) ==
    \/ df[k].speed >= stop_speed_threshold
    \/ (IF k < k2 THEN Gap(k) ELSE Gap(k2)) > 60000

-----------------------------------------------------------------------------
(* Properties of label_stop_segments, checked under Spec *)

Segments == { df[k].stop_segment : k \in 1..Len(df) } \ {0, NoInt}

FirstTs(s) == Min({ df[k].timestamp : k \in SegmentRows(s) })

LastTs(s) == Max({ df[k].timestamp : k \in SegmentRows(s) })

DistinctTimes ==
    \A a, b \in 1..Len(df) : a # b => df[a].timestamp # df[b].timestamp

\* the step of the event loop that handles event number i + 1 of the given type
EventStep(type) ==
    /\ pc = "label"
    /\ pc' = "label"
    /\ i' = i + 1
    /\ events[i + 1].event_type = type

\* the step gives label value to every row of the segments in S and leaves
\* every other label, and everything else in the frame, as it was
LabelsBecome(S, value) ==
    df' = [k \in 1..Len(df) |->
              IF df[k].stop_segment \in S THEN [df[k] EXCEPT !.label = value]
              ELSE df[k]]

\* the most recent segment that ends at or before time t (none: the empty set)
EndedBefore(t) ==
    { s \in Segments :
        /\ LastTs(s) <= t
        /\ \A s2 \in Segments : LastTs(s2) <= t => LastTs(s2) <= LastTs(s) }

\* the latest segment that starts strictly before time t
StartedBefore(t) ==
    { s \in Segments :
        /\ FirstTs(s) < t
        /\ \A s2 \in Segments : FirstTs(s2) < t => FirstTs(s2) <= FirstTs(s) }

\* the segment of the last stopped row, in frame order, strictly before time t
LastStoppedBefore(t) ==
    LET R == { k \in 1..Len(df) : df[k].is_stopped = 1 /\ df[k].timestamp < t }
    IN  IF R = {} THEN {}
        ELSE { df[CHOOSE k \in R : \A k2 \in R : k2 <= k].stop_segment }

\* C4 as claimed: a BOARDING event gives label 1 to exactly the rows of the
\* most recent segment that ends at or before the event's timestamp, so an
\* event strictly inside a segment leaves the enclosing segment alone.
C4_EndsBefore ==
    [][EventStep(1) => LabelsBecome(EndedBefore(events[i + 1].timestamp), 1)]_vars

\* C4 amended: a BOARDING event gives label 1 to exactly the rows of the
\* segment of the last stopped row whose timestamp is strictly earlier than
\* the event's - with pairwise distinct timestamps the latest segment that
\* starts strictly before the event, the enclosing segment included - and
\* changes no label when there is no such row.
C4_StartsBefore ==
    [][EventStep(1) =>
          /\ LabelsBecome(LastStoppedBefore(events[i + 1].timestamp), 1)
          /\ DistinctTimes =>
                LastStoppedBefore(events[i + 1].timestamp)
                    = StartedBefore(events[i + 1].timestamp)]_vars

\* C4 witness: a BOARDING event strictly inside a segment has been handled
\* and the enclosing segment carries label 1, a row outside it label 0
C4_Witness ==
    /\ pc = "label"
    /\ i > 0
    /\ events[i].event_type = 1
    /\ \E s \in Segments :
          /\ FirstTs(s) < events[i].timestamp
          /\ events[i].timestamp < LastTs(s)
          /\ \A k \in SegmentRows(s) : df[k].label = 1
    /\ \E k \in 1..Len(df) : df[k].stop_segment = 0 /\ df[k].label = 0

\* the nearest segment whose first row is at or after time t
StartsAfter(t) ==
    { s \in Segments :
        /\ FirstTs(s) >= t
        /\ \A s2 \in Segments : FirstTs(s2) >= t => FirstTs(s) <= FirstTs(s2) }

\* the earliest segment that ends strictly after time t
EndsAfter(t) ==
    { s \in Segments :
        /\ LastTs(s) > t
        /\ \A s2 \in Segments : LastTs(s2) > t => LastTs(s) <= LastTs(s2) }

\* the segment of the first stopped row, in frame order, strictly after time t
FirstStoppedAfter(t) ==
    LET R == { k \in 1..Len(df) : df[k].is_stopped = 1 /\ df[k].timestamp > t }
    IN  IF R = {} THEN {}
        ELSE { df[CHOOSE k \in R : \A k2 \in R : k <= k2].stop_segment }

\* C5 as claimed: an ALIGHTING event gives label 2 to exactly the rows of the
\* nearest segment whose first row is at or after the event's timestamp, so
\* a segment that started before the event is never labeled by it.
C5_StartsAfter ==
    [][EventStep(2) => LabelsBecome(StartsAfter(events[i + 1].timestamp), 2)]_vars

\* C5 amended: an ALIGHTING event gives label 2 to exactly the rows of the
\* segment of the first stopped row whose timestamp is strictly later than
\* the event's - with pairwise distinct timestamps the earliest segment that
\* ends strictly after the event, the enclosing segment included - and
\* changes no label when there is no such row.
C5_EndsAfter ==
    [][EventStep(2) =>
          /\ LabelsBecome(FirstStoppedAfter(events[i + 1].timestamp), 2)
          /\ DistinctTimes =>
                FirstStoppedAfter(events[i + 1].timestamp)
                    = EndsAfter(events[i + 1].timestamp)]_vars

\* C5 witness: an ALIGHTING event strictly inside a segment has been handled
\* and the enclosing segment, which started before the event, carries label 2
C5_Witness ==
    /\ pc = "label"
    /\ i > 0
    /\ events[i].event_type = 2
    /\ \E s \in Segments :
          /\ FirstTs(s) < events[i].timestamp
          /\ events[i].timestamp < LastTs(s)
          /\ \A k \in SegmentRows(s) : df[k].label = 2

\* C6: whenever the frame has a label column, every label is 0, 1 or 2 and
\* every row with a label other than 0 has is_stopped = 1 and, as long as the
\* column is there, a positive stop_segment: an event on a row outside every
\* segment never labels that row.
C6_LabelOnlyInSegment ==
    "label" \in columns =>
        \A k \in 1..Len(df) :
            /\ df[k].label \in {0, 1, 2}
            /\ df[k].label # 0 =>
                  /\ df[k].is_stopped = 1
                  /\ "stop_segment" \in columns => df[k].stop_segment > 0

\* C6 witness: all events are handled, one of them sits on a row outside each
\* segment and did label a segment, and its own row has label 0
C6_Witness ==
    /\ pc = "label"
    /\ run = 1
    /\ i = Len(events)
    /\ \E k \in 1..Len(df) :
          /\ df[k].event_type > 0
          /\ df[k].stop_segment = 0
          /\ df[k].label = 0
          /\ \E k2 \in 1..Len(df) : df[k2].label = df[k].event_type

\* C7: whenever the frame has both columns, all rows of one positive
\* stop_segment id carry the same label.
C7_OneLabelPerSegment ==
    ("label" \in columns /\ "stop_segment" \in columns) =>
        \A a, b \in 1..Len(df) :
            (df[a].stop_segment > 0 /\ df[a].stop_segment = df[b].stop_segment)
                => df[a].label = df[b].label

\* C7 witness: an event strictly inside a segment has been handled and the
\* rows of the segment before and after the event all carry its label
C7_Witness ==
    /\ pc = "label"
    /\ i > 0
    /\ \E s \in Segments :
          /\ \E a, b \in SegmentRows(s) :
                /\ df[a].timestamp < events[i].timestamp
                /\ events[i].timestamp < df[b].timestamp
          /\ \A k \in SegmentRows(s) : df[k].label = events[i].event_type

\* C10: running the reconciler a second time on the frame it has labeled
\* raises nothing and ends with the labels of the first run.
C10_Idempotent ==
    /\ error = "none"
    /\ (pc = "labeled" /\ run = 2) => LabelColumn(df) = first_labels

-----------------------------------------------------------------------------
(* Properties of apply_event_labels, checked under SpecEvents *)

\* C8: after apply_event_labels, the transition code of a row whose own and
\* whose previous status code are both set is the two-digit previous code
\* followed by the two-digit current code, and the first row matches neither
\* code set.
C8_PreviousFirst ==
    pc = "events" =>
        \A k \in 1..Len(df) :
            IF k = 1
            THEN df[k].status_change \notin (get_on_map \cup get_off_map)
            ELSE (df[k - 1].status_management # NaN /\ df[k].status_management # NaN)
                    => df[k].status_change
                         = zfill(IntText(df[k - 1].status_management), 2)
                             \o zfill(IntText(df[k].status_management), 2)

-----------------------------------------------------------------------------
(* Segment ids *)

\* the closed runs that meet the qualification rule, by position in the list
QualifyingRuns ==
    { j \in 1..Len(low_speed_groups) : StopRule(low_speed_groups[j]) }

\* C20: once identify_stop_segments has returned, the segment ids in use are
\* exactly 1..k where k is the number of qualifying intervals (and the last
\* id handed out), so a disqualified interval consumes no id; an earlier
\* segment has the smaller id: all its rows come before, and are not later
\* than, the rows of a segment with a larger id; every row is in at most one
\* qualifying interval and carries the id of that interval only.
C20_SegmentIds ==
    pc = "identified" =>
        /\ Segments = 1..segment_id
        /\ segment_id = Cardinality(QualifyingRuns)
        /\ \A a, b \in 1..Len(df) :
              df[a].stop_segment > 0 /\ df[b].stop_segment > df[a].stop_segment
                  => a < b /\ df[a].timestamp <= df[b].timestamp
        /\ \A j1, j2 \in QualifyingRuns :
              j1 # j2 => RunRows(low_speed_groups[j1])
                            \cap RunRows(low_speed_groups[j2]) = {}
        /\ \A j \in QualifyingRuns :
              \A k \in RunRows(low_speed_groups[j]) :
                  df[k].stop_segment = Cardinality({ q \in QualifyingRuns : q <= j })

\* C20 witness: a disqualified interval is followed by a qualifying one,
\* which has id 1
C20_Witness ==
    /\ pc = "identified"
    /\ \E j1, j2 \in 1..Len(low_speed_groups) :
          /\ j1 < j2
          /\ ~StopRule(low_speed_groups[j1])
          /\ StopRule(low_speed_groups[j2])
          /\ \A k \in RunRows(low_speed_groups[j2]) : df[k].stop_segment = 1

\* C20 second case: two segments in one stream, numbered 1 and 2 in time order
C20_TwoSegments ==
    /\ pc = "identified"
    /\ Segments = {1, 2}
    /\ LastTs(1) < FirstTs(2)

-----------------------------------------------------------------------------
(* The emitted base table *)

\* the columns the pipeline adds for its own use
WorkingColumns ==
    {"timestamp_ms", "time_stamp", "status_management", "change_flag",
     "status_change", "event_type", "is_low_speed", "is_zero_speed"}

\* the columns the pipeline derives for its consumers
DerivedColumns == {"stop_segment", "is_stopped", "label"}

\* C17: the base table label_stop_segments returns has none of the working
\* columns (join keys, status fields, transition code, raw event, scratch
\* flags) and has all of stop_segment, is_stopped and label.
C17_DerivedColumnsKept ==
    pc = "labeled" =>
        /\ columns \cap WorkingColumns = {}
        /\ DerivedColumns \subseteq columns

-----------------------------------------------------------------------------
(* Properties of create_dataset and save_dataset, checked under SpecBatch *)
(* and SpecSave                                                            *)

\* C11: in a run of create_dataset whose status-log file is absent, no file
\* is parsed: a step of the file loop is taken only when the file exists.
C11_FailsBeforeParsing ==
    [][(pc = "files" /\ i' = i + 1) => change_flag_exists]_vars

\* C12: whenever an error has been raised in a run of save_dataset (of either
\* pipeline), no output table has been written.
C12_NoPartialOutput ==
    error # "none" => written = {}

\* C12 witness: the run has parsed rows and has failed on the missing status
\* log, and nothing is written
C12_Witness ==
    /\ pc = "failed"
    /\ error = "FileNotFoundError"
    /\ Len(df) > 0
    /\ written = {}

\* C12 second case: the run of the first pipeline has failed for want of rows
C12_WitnessV1 ==
    /\ pc = "failed"
    /\ error = "ValueError: No data extracted"
    /\ \E k \in 1..Len(json_files) : "imei" \in DOMAIN json_files[k]
    /\ written = {}

\* the samples of a document whose timeStamp is well formed, in list order
WellFormed(doc) ==
    IF doc.kind # "ok" THEN <<>>
    ELSE SelectSeq(doc.data, LAMBDA r : r.timeStamp # Malformed)

\* the base rows and the motion rows the given samples stand for
BaseRowsFor(samples) ==
    [k \in 1..Len(samples) |-> BaseRow(samples[k].timeStamp, samples[k].speed)]

MotionRowsFor(samples) ==
    Flatten([k \in 1..Len(samples) |-> accel_rows_of(samples[k])])

\* C13: a step of the file loop adds the base row and the motion rows of
\* every sample of the capture whose timeStamp is well formed, also when
\* another sample of the capture has a malformed timeStamp.
C13_SkippedAlone ==
    [][(pc = "files" /\ i' = i + 1) =>
          /\ Flatten(all_base_data')
                = Flatten(all_base_data) \o BaseRowsFor(WellFormed(json_files[i + 1]))
          /\ Flatten(all_accel_data')
                = Flatten(all_accel_data) \o MotionRowsFor(WellFormed(json_files[i + 1]))]_vars

\* the processing of the file fails: the document is unreadable or
\* malformed, or one of its samples makes the parser raise
Fails(doc) ==
    \/ doc.kind = "malformed"
    \/ doc.kind = "ok" /\ \E k \in 1..Len(doc.data) : doc.data[k].timeStamp = Malformed

\* the base rows a file stands for: none when its processing fails
ExpectedBase(doc) == IF Fails(doc) THEN <<>> ELSE BaseRowsFor(WellFormed(doc))

\* C14: during the file loop, the rows collected are those of the files
\* handled so far whose processing did not fail, and exactly the failing
\* files among them are reported; the loop is left only after the last file,
\* and the combined stream then holds the rows of every file that did not
\* fail, in file order.
C14_FailureIsLocal ==
    /\ pc = "files" =>
          /\ i <= Len(json_files)
          /\ Flatten(all_base_data)
                = Flatten([k \in 1..i |-> ExpectedBase(json_files[k])])
          /\ reported = { k - 1 : k \in { n \in 1..i : Fails(json_files[n]) } }
          /\ error = "none"
    /\ pc = "concat" =>
          /\ df = Flatten([k \in 1..Len(json_files) |-> ExpectedBase(json_files[k])])
          /\ reported = { k - 1 : k \in { n \in 1..Len(json_files) : Fails(json_files[n]) } }

\* C14 witness: a failing file is followed by a file with rows; the combined
\* stream holds rows and the failing file is reported
C14_Witness ==
    /\ pc = "concat"
    /\ \E k1, k2 \in 1..Len(json_files) :
          /\ k1 < k2
          /\ Fails(json_files[k1])
          /\ (k1 - 1) \in reported
          /\ ExpectedBase(json_files[k2]) # <<>>
          /\ df = ExpectedBase(json_files[k2])

\* the document has no sample list to use: no key 'data', or an empty list
NoSamples(doc) == doc.kind = "nodata" \/ (doc.kind = "ok" /\ doc.data = <<>>)

\* C19: a step of the file loop on a document without the key 'data' or
\* with an empty sample list adds no row, reports nothing, raises nothing
\* and stays in the loop; a run that finds no capture file ends with the
\* error of the empty directory, and a run in which every file has given
\* zero rows ends with the error of the empty extraction, never with an
\* empty dataset.
C19_EmptyFileEmptyRun ==
    [][/\ (pc = "files" /\ i < Len(json_files) /\ NoSamples(json_files[i + 1])) =>
              /\ pc' = "files"
              /\ i' = i + 1
              /\ error' = "none"
              /\ reported' = reported
              /\ all_base_data' = all_base_data
              /\ all_accel_data' = all_accel_data
       /\ (pc = "start" /\ json_files = <<>>) =>
              /\ pc' = "failed"
              /\ error' = "ValueError: No JSON files found"
       /\ (/\ pc = "files"
           /\ i = Len(json_files)
           /\ \A k \in 1..Len(json_files) : ExpectedBase(json_files[k]) = <<>>) =>
              /\ pc' = "failed"
              /\ error' = "ValueError: No data extracted"
              /\ df' = <<>>]_vars

\* C19 witness: the run has ended with the error of the empty extraction
\* after a document without samples was handled without a report
C19_Witness ==
    /\ pc = "failed"
    /\ error = "ValueError: No data extracted"
    /\ \E k \in 1..Len(json_files) : NoSamples(json_files[k])
    /\ reported = {}
    /\ df = <<>>

\* C19 second case: the run has ended with the error of the empty directory
C19_WitnessNoFiles ==
    /\ pc = "failed"
    /\ error = "ValueError: No JSON files found"
    /\ json_files = <<>>

-----------------------------------------------------------------------------
(* Properties of the per-vehicle split, checked under SpecSplit *)

\* the rows of one car in the dataset, in dataset order
RowsOfCar(c) == SelectSeq(dataset, LAMBDA r : r.car_id = c)

\* floor(r * n) for the ratio r = num / den: the greatest m with m <= r * n
FloorOf(ratio, n) ==
    CHOOSE m \in 0..n : /\ m * ratio.den <= n * ratio.num
                        /\ (m + 1) * ratio.den > n * ratio.num

\* C16: for every car that has been split, with n rows in the dataset (in
\* timestamp order), the training part is the first floor(r * n) rows of the
\* car and the test part the remaining n - floor(r * n) rows, both in dataset
\* order, so that the training part followed by the test part is the car's
\* sequence and every row is in exactly one part; with n = 10 and r = 0.8
\* the parts have 8 and 2 rows.
C16_SplitIsPrefix ==
    pc \in {"split", "saved"} =>
        \A j \in 1..Len(cars_done) :
            LET rows == RowsOfCar(cars_done[j])
                n == Len(rows)
                m == FloorOf(train_ratio, n)
            IN  /\ \A a, b \in 1..n : a < b => rows[a].timestamp <= rows[b].timestamp
                /\ Len(train_data[j]) = m
                /\ Len(test_data[j]) = n - m
                /\ train_data[j] = SubSeq(rows, 1, m)
                /\ test_data[j] = SubSeq(rows, m + 1, n)
                /\ train_data[j] \o test_data[j] = rows
                /\ (n = 10 /\ train_ratio.num = 4 /\ train_ratio.den = 5) =>
                        Len(train_data[j]) = 8 /\ Len(test_data[j]) = 2

\* what holds of the split at every ratio: the parts are a prefix and the
\* rest, and at the default ratio 0.8 the prefix has floor(0.8 * n) rows
SplitIsLossless ==
    pc \in {"split", "saved"} =>
        \A j \in 1..Len(cars_done) :
            LET rows == RowsOfCar(cars_done[j])
            IN  /\ train_data[j] \o test_data[j] = rows
                /\ train_ratio.num = 4 /\ train_ratio.den = 5 =>
                        Len(train_data[j]) = FloorOf(train_ratio, Len(rows))

-----------------------------------------------------------------------------
(* Properties of the parser, checked under SpecParse *)

\* the value a motion row has for axis a, in the order accX .. radZ
AxisOf(row, a) ==
    CASE a = 1 -> row.acc_x
      [] a = 2 -> row.acc_y
      [] a = 3 -> row.acc_z
      [] a = 4 -> row.rad_x
      [] a = 5 -> row.rad_y
      [] a = 6 -> row.rad_z

\* the lengths of the six decoded arrays of a sample
LengthsOf(record) == [a \in 1..6 |-> Len(extract_array_values(record.axes[a]))]

\* C15: once the file of one sample is parsed, with L the greatest of the
\* six array lengths and 1, the motion frame has exactly L rows; row i
\* (0-based) holds for each axis its i-th value when i is below the length
\* of the axis and the missing-value marker, which is not zero, otherwise;
\* six empty arrays give one row with six missing values, and the lengths
\* 3, 5, 4, 5, 3, 5 give 5 rows.
C15_RaggedAxes ==
    pc = "concat" =>
        LET record == json_files[1].data[1]
            lens == LengthsOf(record)
            L == CHOOSE m \in 1..(MaxAxisLen + 1) :
                    /\ \A a \in 1..6 : lens[a] <= m
                    /\ m = 1 \/ \E a \in 1..6 : lens[a] = m
        IN  /\ Len(accel_df) = L
            /\ NaN # 0
            /\ \A k \in 1..L : \A a \in 1..6 :
                  AxisOf(accel_df[k], a) =
                      IF k - 1 < lens[a] THEN record.axes[a].elements[k] ELSE NaN
            /\ (\A a \in 1..6 : lens[a] = 0) =>
                  /\ Len(accel_df) = 1
                  /\ \A a \in 1..6 : AxisOf(accel_df[1], a) = NaN
            /\ lens = <<3, 5, 4, 5, 3, 5>> => Len(accel_df) = 5

\* C15 witness: the sample with array lengths 3, 5, 4, 5, 3, 5 has given 5
\* motion rows, the fourth with accX missing and accY present
C15_Witness ==
    /\ pc = "concat"
    /\ LengthsOf(json_files[1].data[1]) = <<3, 5, 4, 5, 3, 5>>
    /\ Len(accel_df) = 5
    /\ accel_df[4].acc_x = NaN
    /\ accel_df[4].acc_y = json_files[1].data[1].axes[2].elements[4]

\* C15 second case: six empty arrays have given one row of missing values
C15_WitnessEmpty ==
    /\ pc = "concat"
    /\ LengthsOf(json_files[1].data[1]) = <<0, 0, 0, 0, 0, 0>>
    /\ Len(accel_df) = 1
    /\ accel_df[1].acc_x = NaN

-----------------------------------------------------------------------------
(* Row count of the base table, checked under SpecBatch *)

\* the number of samples of the files whose processing did not fail
ParsedSamples ==
    Len(Flatten([k \in 1..Len(json_files) |-> ExpectedBase(json_files[k])]))

\* C18: from the concatenation to the final base table, through detection,
\* the join with the status log and labeling, the base frame has exactly one
\* row per parsed sample, whatever timestamps the samples share and whatever
\* the status log holds.
C18_RowCountPreserved ==
    pc \in {"concat", "scan", "evaluate", "identified", "loaded", "events",
            "label", "labeled", "created", "base_saved", "saved"} =>
        Len(df) = ParsedSamples

-----------------------------------------------------------------------------
(* Conflicting and unattached events, checked under Spec *)

\* the segment an event resolves to (none: the empty set)
ResolvesTo(event) ==
    IF event.event_type = 1 THEN LastStoppedBefore(event.timestamp)
    ELSE FirstStoppedAfter(event.timestamp)

\* the events, by position in the event list, that resolve to segment s
EventsOf(s) == { j \in 1..Len(events) : s \in ResolvesTo(events[j]) }

\* C21: once every event is applied, a segment that two events of different
\* types resolve to carries, on all its rows, the type of the one of them
\* with the later timestamp - more generally the type of the latest event
\* that resolves to it.
C21_LaterEventWins ==
    (pc = "label" /\ i = Len(events) /\ DistinctTimes) =>
        \A s \in Segments :
            \A j1, j2 \in EventsOf(s) :
                (/\ events[j1].event_type # events[j2].event_type
                 /\ events[j1].timestamp < events[j2].timestamp
                 /\ \A j3 \in EventsOf(s) : events[j3].timestamp <= events[j2].timestamp)
                    => \A k \in SegmentRows(s) : df[k].label = events[j2].event_type

\* C21 witness: a BOARDING event and a later ALIGHTING event resolve to one
\* segment, and the segment carries label 2
C21_Witness ==
    /\ pc = "label"
    /\ i = Len(events)
    /\ \E s \in Segments :
          \E j1, j2 \in EventsOf(s) :
              /\ events[j1].event_type = 1
              /\ events[j2].event_type = 2
              /\ events[j1].timestamp < events[j2].timestamp
              /\ \A j3 \in EventsOf(s) : events[j3].timestamp <= events[j2].timestamp
              /\ \A k \in SegmentRows(s) : df[k].label = 2

\* C21 second case: an ALIGHTING event and a later BOARDING event resolve to
\* one segment, and the segment carries label 1
C21_WitnessBoardingLast ==
    /\ pc = "label"
    /\ i = Len(events)
    /\ \E s \in Segments :
          \E j1, j2 \in EventsOf(s) :
              /\ events[j1].event_type = 2
              /\ events[j2].event_type = 1
              /\ events[j1].timestamp < events[j2].timestamp
              /\ \A j3 \in EventsOf(s) : events[j3].timestamp <= events[j2].timestamp
              /\ \A k \in SegmentRows(s) : df[k].label = 1

\* C22: the step of the event loop for a BOARDING event with no stopped row
\* (no stop segment) before it, or an ALIGHTING event with none after it,
\* changes nothing in the frame and raises nothing, and the loop goes on;
\* while the frame has no stopped row at all, every label is 0.
C22_UnattachedEvent ==
    [][/\ (pc = "label" /\ i < Len(events) /\ ResolvesTo(events[i + 1]) = {}) =>
              /\ df' = df
              /\ error' = "none"
              /\ pc' = "label"
              /\ i' = i + 1
       /\ (/\ pc' = "label"
           /\ \A k \in 1..Len(df') : df'[k].is_stopped # 1) =>
              \A k \in 1..Len(df') : df'[k].label = 0]_vars

\* C22 witness: the first event, a BOARDING event with a segment after it
\* and none before it, has been handled and every label is 0
C22_Witness ==
    /\ pc = "label"
    /\ i = 1
    /\ events[1].event_type = 1
    /\ ResolvesTo(events[1]) = {}
    /\ \E s \in Segments : FirstTs(s) > events[1].timestamp
    /\ \A k \in 1..Len(df) : df[k].label = 0
    /\ error = "none"

\* C22 second case: the same for an ALIGHTING event with a segment before it
\* and none after it
C22_WitnessAlighting ==
    /\ pc = "label"
    /\ i = 1
    /\ events[1].event_type = 2
    /\ ResolvesTo(events[1]) = {}
    /\ \E s \in Segments : LastTs(s) < events[1].timestamp
    /\ \A k \in 1..Len(df) : df[k].label = 0
    /\ error = "none"

\* C22 third case: events exist, no segment does, and every label is 0
C22_WitnessNoSegment ==
    /\ pc = "label"
    /\ i = Len(events)
    /\ Len(events) > 0
    /\ \A k \in 1..Len(df) : df[k].is_stopped = 0 /\ df[k].label = 0

-----------------------------------------------------------------------------
(* Unmatched join keys, checked under SpecEvents *)

\* row k of the frame has no entry in the status log
Unmatched(k) ==
    \A j \in 1..Len(change_flag_df) : change_flag_df[j].time_stamp # df[k].timestamp

\* C23: after apply_event_labels, a row whose timestamp is in no status-log
\* entry has a missing status code and a missing change flag and the raw
\* event NONE; its transition code and the transition code of the row after
\* it are in neither code set, so the row after it has an event only when
\* its change flag is 1; no error is raised.
C23_UnmatchedIsNone ==
    pc = "events" =>
        /\ error = "none"
        /\ \A k \in 1..Len(df) :
              Unmatched(k) =>
                  /\ df[k].status_management = NaN
                  /\ df[k].change_flag = NaN
                  /\ df[k].status_change \notin (get_on_map \cup get_off_map)
                  /\ df[k].event_type = 0
                  /\ k < Len(df) =>
                        /\ df[k + 1].status_change \notin (get_on_map \cup get_off_map)
                        /\ df[k + 1].event_type
                              = IF df[k + 1].change_flag = 1 THEN 1 ELSE 0

\* C23 witness: a row with status 0, a row without a log entry and a row
\* with status 3 follow each other, and none of the three has an event
C23_Witness ==
    /\ pc = "events"
    /\ \E k \in 2..(Len(df) - 1) :
          /\ Unmatched(k)
          /\ df[k - 1].status_management = 0
          /\ df[k + 1].status_management = 3
          /\ df[k + 1].change_flag = 0
          /\ df[k].event_type = 0
          /\ df[k + 1].event_type = 0

\* the decoding of an axis text fails: json.loads rejects the text, or one of
\* its items is not a number
DecodeFails(array_str) ==
    \/ ~array_str.valid
    \/ \E j \in 1..Len(array_str.elements) : array_str.elements[j] = NonNumeric

\* C24: when the decoding of one axis array of a sample fails, that axis
\* alone is treated as empty: the run raises no error, the sample still gives
\* its base row, the number of motion rows is the longest of the axes that
\* decoded (at least one), every axis that decoded keeps its values (padded
\* with the missing-value marker), and the axis that failed is the
\* missing-value marker in every motion row
C24_FailedAxisIsEmpty ==
    pc = "concat" =>
        LET record == json_files[1].data[1]
            good == { a \in 1..6 : ~DecodeFails(record.axes[a]) }
        IN  /\ error = "none"
            /\ Len(df) = 1
            /\ df[1].timestamp = record.timeStamp
            /\ Len(accel_df) =
                   Max({ Len(record.axes[a].elements) : a \in good } \cup {1})
            /\ \A k \in 1..Len(accel_df) : \A a \in 1..6 :
                   AxisOf(accel_df[k], a) =
                       IF a \in good /\ k <= Len(record.axes[a].elements)
                       THEN record.axes[a].elements[k]
                       ELSE NaN

\* a run in which exactly one axis (accY, by a non-numeric item after a
\* number) failed to decode while the other five hold values
C24_Witness ==
    /\ pc = "concat"
    /\ LET record == json_files[1].data[1]
       IN  /\ record.axes[2] = ArrayText(TRUE, <<10, NonNumeric>>)
           /\ \A a \in (1..6) \ {2} :
                  /\ ~DecodeFails(record.axes[a])
                  /\ record.axes[a].elements # <<>>
    /\ Len(accel_df) = 3
    /\ \A k \in 1..3 : accel_df[k].acc_y = NaN
    /\ accel_df[1].acc_x = 0

\* a run in which one axis (radZ) is a text json.loads rejects
C24_WitnessInvalid ==
    /\ pc = "concat"
    /\ LET record == json_files[1].data[1]
       IN  /\ ~record.axes[6].valid
           /\ \A a \in 1..5 : ~DecodeFails(record.axes[a])
    /\ \E k \in 1..Len(accel_df) : accel_df[k].acc_x # NaN
    /\ \A k \in 1..Len(accel_df) : accel_df[k].rad_z = NaN

-----------------------------------------------------------------------------
(* Properties of the order of the rows, checked under SpecOrder *)

\* the rows of s listed by ascending timestamp, rows of one timestamp in the
\* order they have in s
StableByTime(s) ==
    [k \in 1..Len(s) |->
        s[CHOOSE a \in 1..Len(s) :
            Cardinality({ b \in 1..Len(s) :
                            \/ s[b].timestamp < s[a].timestamp
                            \/ s[b].timestamp = s[a].timestamp /\ b < a }) = k - 1]]

\* the timestamp and the speed of the rows of a base frame
Readings(s) == [k \in 1..Len(s) |-> <<s[k].timestamp, s[k].speed>>]

AscendingTables ==
    pc = "created" =>
        /\ \A k \in 1..(Len(df) - 1) : df[k].timestamp <= df[k + 1].timestamp
        /\ \A k \in 1..(Len(accel_df) - 1) :
              accel_df[k].timestamp <= accel_df[k + 1].timestamp

-----------------------------------------------------------------------------
(* Timestamps of the motion rows, checked under SpecBatch *)

\* the samples of the files whose processing does not fail, in file order
SamplesRead ==
    Flatten([f \in 1..Len(json_files) |->
                IF Fails(json_files[f]) \/ json_files[f].kind # "ok"
                THEN <<>> ELSE json_files[f].data])

\* the number of motion rows of a sample: the longest of its arrays, at least 1
MotionRowCount(record) ==
    Max({ Len(extract_array_values(record.axes[a])) : a \in 1..6 } \cup {1})

\* C26: in the concatenated motion stream the rows of each sample follow one
\* another, and the row with sub-sample index j of a sample has the
\* timestamp of the sample plus 10 ms * j: index 0 has the timestamp of the
\* parent base row, and the rows of a sample are strictly increasing, 10 ms
\* apart.
C26_MotionTimestamps ==
    pc = "concat" =>
        /\ [k \in 1..Len(accel_df) |-> accel_df[k].timestamp] =
               Flatten([s \in 1..Len(SamplesRead) |->
                           [j \in 1..MotionRowCount(SamplesRead[s]) |->
                               SamplesRead[s].timeStamp + 10 * (j - 1)]])
        /\ [s \in 1..Len(SamplesRead) |-> SamplesRead[s].timeStamp] =
               [s \in 1..Len(df) |-> df[s].timestamp]

\* a stream with the two motion rows of a sample taken at 10 s: one at 10 s
\* and one 10 ms later
C26_Witness ==
    /\ pc = "concat"
    /\ \E k \in 1..(Len(accel_df) - 1) :
          /\ accel_df[k].timestamp = 10000
          /\ accel_df[k + 1].timestamp = 10010
    /\ \E s \in 1..Len(df) : df[s].timestamp = 10000

-----------------------------------------------------------------------------
(* The two code sets, checked under SpecEvents *)

\* the event decision of lines 245-248 with the alighting test applied before
\* the boarding test
event_type_OffFirst(change_flag, code) ==
    LET e0 == 0
        e1 == IF change_flag = 1 THEN 1 ELSE e0
        e2 == IF code \in get_off_map THEN 2 ELSE e1
        e3 == IF code \in get_on_map THEN 1 ELSE e2
    IN  e3

\* C27: the boarding-code set and the alighting-code set hold 27 distinct
\* codes of 4 characters each and share no code, and the raw event of every
\* row is the one the two membership tests give in the other order.
C27_DisjointCodeSets ==
    /\ Cardinality(get_on_map) = 27
    /\ Cardinality(get_off_map) = 27
    /\ \A code \in get_on_map \cup get_off_map : Len(code) = 4
    /\ get_on_map \cap get_off_map = {}
    /\ pc = "events" =>
          \A k \in 1..Len(df) :
              /\ ~(df[k].status_change \in get_on_map
                     /\ df[k].status_change \in get_off_map)
              /\ df[k].event_type =
                     event_type_OffFirst(df[k].change_flag, df[k].status_change)

\* a frame with a row whose code is in the boarding set and a row whose code
\* is in the alighting set, classified 1 and 2
C27_Witness ==
    /\ pc = "events"
    /\ \E k \in 1..Len(df) :
          df[k].status_change \in get_on_map /\ df[k].event_type = 1
    /\ \E k \in 1..Len(df) :
          df[k].status_change \in get_off_map /\ df[k].event_type = 2

-----------------------------------------------------------------------------
(* Independence of the file order, checked under SpecOrder *)

\* the timestamps of the samples of all files, in file order
SampleTimes ==
    Flatten([f \in 1..Len(json_files) |->
                [k \in 1..Len(json_files[f].data) |-> json_files[f].data[k].timeStamp]])

\* no two samples have the same timestamp
DistinctSampleTimes ==
    \A a, b \in 1..Len(SampleTimes) : SampleTimes[a] = SampleTimes[b] => a = b

\* C28: when the samples have pairwise distinct timestamps, the base table
\* create_dataset returns for the files read in another order is the table
\* it returned for the first order: the same rows in the same order, with
\* the same is_stopped and the same label.
C28_OrderIndependent ==
    (pc = "created" /\ first_result # <<>> /\ DistinctSampleTimes) =>
        df = first_result

\* a second run over two files read in another order, the later file first,
\* that ends with a stop segment and a label on it
C28_Witness ==
    /\ pc = "created"
    /\ first_result # <<>>
    /\ DistinctSampleTimes
    /\ Len(json_files) = 2
    /\ json_files[1].data[1].timeStamp > json_files[2].data[1].timeStamp
    /\ \E k \in 1..Len(df) : df[k].is_stopped = 1 /\ df[k].label # 0
    /\ \E k \in 1..Len(df) : df[k].is_stopped = 0

====
